---- MODULE Spec2Model ----
(***************************************************************************)
(* Model of prody/apps/evol_apps/evol_coevol.py: the "evol coevol"         *)
(* application.  One run of evol_coevol(msa, **kwargs) is a sequential     *)
(* program; pc is its position.  The numerical collaborators               *)
(* (buildMutinfoMatrix, calcShannonEntropy, applyMutinfoNorm,              *)
(* applyMutinfoCorr) are uninterpreted: each returns a symbolic term       *)
(* naming the call and its arguments.  log records, in order, every        *)
(* collaborator call, text write, figure save and warning of the run.      *)
(***************************************************************************)
EXTENDS Integers, Sequences, FiniteSets, TLC

VARIABLES
    entry,      \* "api": evol_coevol called directly; "cli": through APP's parser
    msa,        \* the msa argument: a path, as a sequence of characters
    kwargs,     \* prefix, normalization, correction, figcoevol, figformat
    pltOK,      \* environment: can matplotlib.pyplot be imported
    pc,         \* position in evol_coevol
    prefix,     \* local prefix (string)
    mutinfo,    \* local mutinfo (the base matrix)
    todo,       \* local todo: sequence of [what, which]
    i,          \* index in todo of the task of the current loop iteration
    entropy,    \* local entropy (None until computed)
    matrix,     \* local matrix of the current iteration
    suffix,     \* local suffix of the current iteration
    log,        \* history: calls, writes, figure saves, warnings, in order
    files,      \* file system: path -> content
    raised      \* None, or the call whose exception ended the run

vars == <<entry, msa, kwargs, pltOK, pc, prefix, mutinfo, todo, i, entropy,
          matrix, suffix, log, files, raised>>

-----------------------------------------------------------------------------
(* Bounds of the model *)

MaxNorm == 2
MaxCorr == 2
\* longest msa path of the prefix runs
MaxPath == 6

-----------------------------------------------------------------------------
(* Python values *)

\* None, where the other values are strings
None == "None"
\* None / a list, for the list-valued options
NoList == <<>>
SomeList(l) == <<l>>
\* a local not yet assigned
Unbound == ""

SeqsUpTo(S, n) == UNION {[1..k -> S] : k \in 0..n}

RECURSIVE Join(_)
\* the Python str of a sequence of characters
Join(cs) == IF cs = <<>> THEN "" ELSE cs[1] \o Join(Tail(cs))

Contains(l, x) == \E k \in 1..Len(l) : l[k] = x


-----------------------------------------------------------------------------
(* Option values *)

\* choices of -c/--correction
CorrChoices == {"apc", "asc"}
\* variant: a correction name slipped into the normalization choices
NormChoicesWithApc ==
    {"sument", "minent", "maxent", "mincon", "maxcon", "joint", "apc"}
\* choices of -m/--normalization
NormChoices == {"sument", "minent", "maxent", "mincon", "maxcon", "joint"}

\* names a direct caller passes as normalization: documented names, and the
\* literal 'join' that evol_coevol itself tests for
NormArgs == {"joint", "minent", "sument", "join"}
CorrArgs == {"apc", "asc"}
\* names typed on the command line: also names outside the choices
NormTyped == {"joint", "minent", "apc"}
CorrTyped == {"apc", "joint"}

\* the msa paths of the runs
MsaFiles == { <<"a", ".", "s", "l", "x">>,
              <<"a", ".", "s", "l", "x", ".", "G", "z">> }
PrefixArgs == {None, "out"}
FigFormats == {"pdf"}

-----------------------------------------------------------------------------
(* os.path.splitext and the default prefix *)

\* str.rfind, 1-based: 0 when c does not occur
RFind(p, c) ==
    IF \E k \in 1..Len(p) : p[k] = c
    THEN CHOOSE k \in 1..Len(p) : p[k] = c /\ \A j \in (k+1)..Len(p) : p[j] # c
    ELSE 0

\* os.path.splitext(p): <<root, ext>>
splitext(p) ==
    LET sepIndex == RFind(p, "/")
        dotIndex == RFind(p, ".")
    IN  IF dotIndex > sepIndex
           /\ \E k \in (sepIndex+1)..(dotIndex-1) : p[k] # "."
        THEN <<SubSeq(p, 1, dotIndex-1), SubSeq(p, dotIndex, Len(p))>>
        ELSE <<p, <<>>>>

LowerChar(c) ==
    CASE c = "G" -> "g"
      [] c = "Z" -> "z"
      [] c = "S" -> "s"
      [] c = "L" -> "l"
      [] c = "X" -> "x"
      [] c = "A" -> "a"
      [] OTHER -> c

\* variant: the extension is compared as it is written
lowerNot(cs) == cs

\* str.lower
lower(cs) == [k \in 1..Len(cs) |-> LowerChar(cs[k])]

\* lines 119-124: the prefix of the run
DerivePrefixValue(m, kw) ==
    IF kw.prefix = None
    THEN LET s1 == splitext(m)
             root == IF lower(s1[2]) = <<".", "g", "z">>
                     THEN splitext(s1[1])[1]
                     ELSE s1[1]
         IN  Join(root) \o "_mutinfo"
    ELSE kw.prefix

-----------------------------------------------------------------------------
(* Collaborators: symbolic results *)

\* buildMutinfoMatrix(msa, **kwargs) and buildMutinfoMatrix(msa, norm=True, **kwargs)
buildMutinfoMatrix(m, norm) ==
    IF norm THEN "MI(" \o Join(m) \o ",norm=True)" ELSE "MI(" \o Join(m) \o ")"

calcShannonEntropy(m) == "H(" \o Join(m) \o ")"

applyMutinfoNorm(mi, ent, which) ==
    "norm(" \o mi \o "," \o ent \o "," \o which \o ")"

applyMutinfoCorr(mi, which) == "corr(" \o mi \o "," \o which \o ")"

\* showMutinfoMatrix(matrix, ...) drawn on the figure that savefig stores
showMutinfoMatrix(mx) == "fig(" \o mx \o ")"

-----------------------------------------------------------------------------
(* History and file system *)

Event(ev, fn, task, path, data) ==
    [ev |-> ev, fn |-> fn, task |-> task, path |-> path, data |-> data]

\* open(path, 'w') ... write: the file holds the new content only
Store(fs, path, data) ==
    [p \in (DOMAIN fs) \cup {path} |-> IF p = path THEN data ELSE fs[p]]

NoFiles == [p \in {} |-> ""]

-----------------------------------------------------------------------------
(* Lines 131-142: the task list *)

Task(what, which) == [what |-> what, which |-> which]

\* variant: 'joint' is left where the caller put it
EarlyJointNever(norm) == <<>>

\* lines 135-136: 'joint' is put first
EarlyJoint(norm) ==
    IF Contains(norm, "joint") THEN <<Task("norm", "joint")>> ELSE <<>>

\* variant: the loop passes over 'joint' too, which line 136 has appended
SkippedWithJoint(which) == which \in {"join", "joint"}

\* variant: the loop passes over no name
SkippedNothing(which) == FALSE

\* line 138: the names the loop passes over
Skipped(which) == which = "join"

RECURSIVE NormLoop(_)
\* lines 137-139
NormLoop(norm) ==
    IF norm = <<>> THEN <<>>
    ELSE (IF Skipped(Head(norm)) THEN <<>> ELSE <<Task("norm", Head(norm))>>)
         \o NormLoop(Tail(norm))

\* lines 141-142
CorrLoop(corr) == [k \in 1..Len(corr) |-> Task("corr", corr[k])]

\* variant: the base task is appended after the requested ones
PlanTodoBaseLast(kw) ==
    (IF kw.normalization # NoList
     THEN EarlyJoint(kw.normalization[1]) \o NormLoop(kw.normalization[1])
     ELSE <<>>)
    \o (IF kw.correction # NoList THEN CorrLoop(kw.correction[1]) ELSE <<>>)
    \o <<Task(None, None)>>

PlanTodo(kw) ==
    <<Task(None, None)>>
    \o (IF kw.normalization # NoList
        THEN EarlyJoint(kw.normalization[1]) \o NormLoop(kw.normalization[1])
        ELSE <<>>)
    \o (IF kw.correction # NoList THEN CorrLoop(kw.correction[1]) ELSE <<>>)

-----------------------------------------------------------------------------
(* Lines 145-186: names and paths *)

\* line 158
NormSuffix(which) == "_norm_" \o which
\* variant: the correction suffix is built like the normalization one
CorrSuffixAsNorm(which) == "_norm_" \o which

\* line 162
CorrSuffix(which) == "_corr_" \o which
\* lines 128 and 164
TextPath(pre, suf) == pre \o suf \o ".txt"
\* line 185
FigPath(pre, suf, format) == pre \o suf \o "." \o format

\* variant: the cached entropy is not consulted
EntropyAlwaysMissing(ent) == TRUE

\* line 155
EntropyMissing(ent) == ent = None

-----------------------------------------------------------------------------
(* The runs *)

OptLists(S, n, withEmpty) ==
    {NoList} \cup {SomeList(l) : l \in SeqsUpTo(S, n) \ (IF withEmpty THEN {} ELSE {<<>>})}

\* keyword arguments of a direct call
ApiKwargs ==
    [prefix : PrefixArgs,
     normalization : OptLists(NormArgs, MaxNorm, TRUE),
     correction : OptLists(CorrArgs, MaxCorr, TRUE),
     figcoevol : BOOLEAN,
     figformat : FigFormats]

\* what the command line gives: action='append' leaves None or a non-empty list
CliKwargs ==
    [prefix : PrefixArgs,
     normalization : OptLists(NormTyped, MaxNorm, FALSE),
     correction : OptLists(CorrTyped, MaxCorr, FALSE),
     figcoevol : BOOLEAN,
     figformat : FigFormats]

Init ==
    /\ entry \in {"api", "cli"}
    /\ msa \in MsaFiles
    /\ kwargs \in (IF entry = "api" THEN ApiKwargs ELSE CliKwargs)
    \* the import is attempted only when figcoevol is set
    /\ pltOK \in (IF kwargs.figcoevol THEN BOOLEAN ELSE {TRUE})
    /\ pc = IF entry = "cli" THEN "argparse" ELSE "prefix"
    /\ prefix = Unbound
    /\ mutinfo = Unbound
    /\ todo = <<>>
    /\ i = 0
    /\ entropy = Unbound
    /\ matrix = Unbound
    /\ suffix = Unbound
    /\ log = <<>>
    /\ files = NoFiles
    /\ raised = None

\* lines 62-78: choices=... of -c and -m
ChoicesOK(kw) ==
    /\ kw.normalization # NoList =>
          \A k \in 1..Len(kw.normalization[1]) : kw.normalization[1][k] \in NormChoices
    /\ kw.correction # NoList =>
          \A k \in 1..Len(kw.correction[1]) : kw.correction[1][k] \in CorrChoices

\* the parser accepts the command line and calls evol_coevol
ArgsAccepted ==
    /\ pc = "argparse"
    /\ ChoicesOK(kwargs)
    /\ pc' = "prefix"
    /\ UNCHANGED <<entry, msa, kwargs, pltOK, prefix, mutinfo, todo, i, entropy,
                   matrix, suffix, log, files, raised>>

\* the parser rejects a value outside the choices: evol_coevol is not called
ArgsRejected ==
    /\ pc = "argparse"
    /\ ~ChoicesOK(kwargs)
    /\ pc' = "rejected"
    /\ UNCHANGED <<entry, msa, kwargs, pltOK, prefix, mutinfo, todo, i, entropy,
                   matrix, suffix, log, files, raised>>

\* lines 119-124
DerivePrefix ==
    /\ pc = "prefix"
    /\ prefix' = DerivePrefixValue(msa, kwargs)
    /\ pc' = "build"
    /\ UNCHANGED <<entry, msa, kwargs, pltOK, mutinfo, todo, i, entropy,
                   matrix, suffix, log, files, raised>>

\* lines 126-127
BuildBase ==
    /\ pc = "build"
    /\ mutinfo' = buildMutinfoMatrix(msa, FALSE)
    /\ log' = Append(log, Event("call", "buildMutinfoMatrix", 0, "", mutinfo'))
    /\ pc' = "writebase"
    /\ UNCHANGED <<entry, msa, kwargs, pltOK, prefix, todo, i, entropy,
                   matrix, suffix, files, raised>>

\* writeArray(path, data) returns
Written(task, path, data) ==
    /\ log' = Append(log, Event("write", "writeArray", task, path, data))
    /\ files' = Store(files, path, data)

\* variant: the exception is swallowed and the run goes on
ContinueAfterWriteError(following) == following

\* lines 128-129 and 164-165: no handler encloses writeArray, its exception
\* leaves evol_coevol instead of reaching the statement that follows
AfterWriteError(following) == "aborted"

\* lines 128-129
WriteBase ==
    /\ pc = "writebase"
    /\ \/ /\ Written(0, TextPath(prefix, ""), mutinfo)
          /\ pc' = "plan"
          /\ UNCHANGED raised
       \/ /\ raised' = "writeArray"
          /\ pc' = AfterWriteError("plan")
          /\ UNCHANGED <<log, files>>
    /\ UNCHANGED <<entry, msa, kwargs, pltOK, prefix, mutinfo, todo, i, entropy,
                   matrix, suffix>>

\* lines 131-143
Plan ==
    /\ pc = "plan"
    /\ todo' = PlanTodo(kwargs)
    /\ entropy' = None
    /\ i' = 1
    /\ pc' = "compute"
    /\ UNCHANGED <<entry, msa, kwargs, pltOK, prefix, mutinfo,
                   matrix, suffix, log, files, raised>>

\* variant: lines 149-152 are missing, 'joint' is normalized like the others
ComputeTaskNoJointBranch(t, mi, ent, m, task) ==
    IF t.what = None
    THEN [matrix |-> mi, suffix |-> "", entropy |-> ent, calls |-> <<>>]
    ELSE IF t.what = "norm"
    THEN LET fresh == EntropyMissing(ent)
             e == IF fresh THEN calcShannonEntropy(m) ELSE ent
             mx == applyMutinfoNorm(mi, e, t.which)
         IN  [matrix |-> mx, suffix |-> NormSuffix(t.which), entropy |-> e,
              calls |-> (IF fresh
                         THEN <<Event("call", "calcShannonEntropy", task, "", e)>>
                         ELSE <<>>)
                        \o <<Event("call", "applyMutinfoNorm", task, "", mx)>>]
    ELSE LET mx == applyMutinfoCorr(mi, t.which)
         IN  [matrix |-> mx, suffix |-> CorrSuffix(t.which), entropy |-> ent,
              calls |-> <<Event("call", "applyMutinfoCorr", task, "", mx)>>]

\* variant: the entropy is computed at the top of the iteration, whatever the
\* task
ComputeTaskEagerEntropy(t, mi, ent, m, task) ==
    LET fresh == EntropyMissing(ent)
        e == IF fresh THEN calcShannonEntropy(m) ELSE ent
        first == IF fresh
                 THEN <<Event("call", "calcShannonEntropy", task, "", e)>>
                 ELSE <<>>
    IN  IF t.what = None
        THEN [matrix |-> mi, suffix |-> "", entropy |-> e, calls |-> first]
        ELSE IF t.which = "joint"
        THEN LET mx == buildMutinfoMatrix(m, TRUE)
             IN  [matrix |-> mx, suffix |-> "_norm_joint", entropy |-> e,
                  calls |-> first
                            \o <<Event("call", "buildMutinfoMatrix", task, "", mx)>>]
        ELSE IF t.what = "norm"
        THEN LET mx == applyMutinfoNorm(mi, e, t.which)
             IN  [matrix |-> mx, suffix |-> NormSuffix(t.which), entropy |-> e,
                  calls |-> first
                            \o <<Event("call", "applyMutinfoNorm", task, "", mx)>>]
        ELSE LET mx == applyMutinfoCorr(mi, t.which)
             IN  [matrix |-> mx, suffix |-> CorrSuffix(t.which), entropy |-> e,
                  calls |-> first
                            \o <<Event("call", "applyMutinfoCorr", task, "", mx)>>]

\* lines 146-162: the matrix and the suffix of task t, with the calls made
ComputeTask(t, mi, ent, m, task) ==
    IF t.what = None
    THEN [matrix |-> mi, suffix |-> "", entropy |-> ent, calls |-> <<>>]
    ELSE IF t.which = "joint"
    THEN LET mx == buildMutinfoMatrix(m, TRUE)
         IN  [matrix |-> mx, suffix |-> "_norm_joint", entropy |-> ent,
              calls |-> <<Event("call", "buildMutinfoMatrix", task, "", mx)>>]
    ELSE IF t.what = "norm"
    THEN LET fresh == EntropyMissing(ent)
             e == IF fresh THEN calcShannonEntropy(m) ELSE ent
             mx == applyMutinfoNorm(mi, e, t.which)
         IN  [matrix |-> mx, suffix |-> NormSuffix(t.which), entropy |-> e,
              calls |-> (IF fresh
                         THEN <<Event("call", "calcShannonEntropy", task, "", e)>>
                         ELSE <<>>)
                        \o <<Event("call", "applyMutinfoNorm", task, "", mx)>>]
    ELSE LET mx == applyMutinfoCorr(mi, t.which)
         IN  [matrix |-> mx, suffix |-> CorrSuffix(t.which), entropy |-> ent,
              calls |-> <<Event("call", "applyMutinfoCorr", task, "", mx)>>]

\* variant: the figure of lines 176-186 is drawn and saved right after the
\* matrix is computed, before line 164
ComputePlotsFirst ==
    /\ pc = "compute"
    /\ LET r == ComputeTask(todo[i], mutinfo, entropy, msa, i)
           plots == kwargs.figcoevol /\ pltOK
           path == FigPath(prefix, r.suffix, kwargs.figformat)
           fig == showMutinfoMatrix(r.matrix)
       IN  /\ matrix' = r.matrix
           /\ suffix' = r.suffix
           /\ entropy' = r.entropy
           /\ log' = log \o r.calls
                     \o (IF plots
                         THEN <<Event("savefig", "savefig", i, path, fig)>>
                         ELSE <<>>)
           /\ files' = IF plots THEN Store(files, path, fig) ELSE files
    /\ pc' = "write"
    /\ UNCHANGED <<entry, msa, kwargs, pltOK, prefix, mutinfo, todo, i, raised>>

\* lines 145-162
Compute ==
    /\ pc = "compute"
    /\ LET r == ComputeTask(todo[i], mutinfo, entropy, msa, i)
       IN  /\ matrix' = r.matrix
           /\ suffix' = r.suffix
           /\ entropy' = r.entropy
           /\ log' = log \o r.calls
    /\ pc' = "write"
    /\ UNCHANGED <<entry, msa, kwargs, pltOK, prefix, mutinfo, todo, i,
                   files, raised>>

\* lines 164-165
WriteText ==
    /\ pc = "write"
    /\ \/ /\ Written(i, TextPath(prefix, suffix), matrix)
          /\ pc' = "figure"
          /\ UNCHANGED raised
       \/ /\ raised' = "writeArray"
          /\ pc' = AfterWriteError("figure")
          /\ UNCHANGED <<log, files>>
    /\ UNCHANGED <<entry, msa, kwargs, pltOK, prefix, mutinfo, todo, i, entropy,
                   matrix, suffix>>

\* line 145: the next iteration, or the end of the loop and of evol_coevol
NextTask ==
    IF i < Len(todo)
    THEN i' = i + 1 /\ pc' = "compute"
    ELSE i' = i /\ pc' = "done"

\* variant: the ImportError is caught and nothing is logged
SilentSkip(lg, task) == lg

\* variant: the warning is logged for the first failed import only
WarnOnlyOnce(lg, task) ==
    IF \E k \in 1..Len(lg) : lg[k].ev = "warn"
    THEN lg
    ELSE Append(lg, Event("warn", "LOGGER.warn", task, "",
                          "Matplotlib could not be imported, figures are not saved."))

\* lines 170-172: the ImportError is caught and logged
WarnNoMatplotlib(lg, task) ==
    Append(lg, Event("warn", "LOGGER.warn", task, "",
                     "Matplotlib could not be imported, figures are not saved."))

\* the calls of lines 180-186 that may raise; no handler encloses them
FigureCalls == {"showMutinfoMatrix", "savefig"}

\* variant: drawing clips the matrix in place; for the base task the matrix is
\* mutinfo itself (line 147), which the later tasks read
FigureClipsInPlace ==
    /\ pc = "figure"
    /\ \/ /\ ~kwargs.figcoevol
          /\ NextTask
          /\ UNCHANGED <<log, files, raised, mutinfo>>
       \/ /\ kwargs.figcoevol
          /\ ~pltOK
          /\ log' = WarnNoMatplotlib(log, i)
          /\ NextTask
          /\ UNCHANGED <<files, raised, mutinfo>>
       \/ /\ kwargs.figcoevol
          /\ pltOK
          /\ LET path == FigPath(prefix, suffix, kwargs.figformat)
                 fig == showMutinfoMatrix(matrix)
             IN  /\ log' = Append(log, Event("savefig", "savefig", i, path, fig))
                 /\ files' = Store(files, path, fig)
          /\ mutinfo' = IF matrix = mutinfo THEN "clip(" \o mutinfo \o ")" ELSE mutinfo
          /\ NextTask
          /\ UNCHANGED raised
       \/ /\ kwargs.figcoevol
          /\ pltOK
          /\ raised' \in FigureCalls
          /\ pc' = "aborted"
          /\ UNCHANGED <<i, log, files, mutinfo>>
    /\ UNCHANGED <<entry, msa, kwargs, pltOK, prefix, todo, entropy,
                   matrix, suffix>>

\* lines 167-186
Figure ==
    /\ pc = "figure"
    /\ \/ /\ ~kwargs.figcoevol
          /\ NextTask
          /\ UNCHANGED <<log, files, raised>>
       \/ /\ kwargs.figcoevol
          /\ ~pltOK
          /\ log' = WarnNoMatplotlib(log, i)
          /\ NextTask
          /\ UNCHANGED <<files, raised>>
       \/ /\ kwargs.figcoevol
          /\ pltOK
          /\ LET path == FigPath(prefix, suffix, kwargs.figformat)
                 fig == showMutinfoMatrix(matrix)
             IN  /\ log' = Append(log, Event("savefig", "savefig", i, path, fig))
                 /\ files' = Store(files, path, fig)
          /\ NextTask
          /\ UNCHANGED raised
       \/ /\ kwargs.figcoevol
          /\ pltOK
          /\ raised' \in FigureCalls
          /\ pc' = "aborted"
          /\ UNCHANGED <<i, log, files>>
    /\ UNCHANGED <<entry, msa, kwargs, pltOK, prefix, mutinfo, todo, entropy,
                   matrix, suffix>>

Next ==
    \/ ArgsAccepted
    \/ ArgsRejected
    \/ DerivePrefix
    \/ BuildBase
    \/ WriteBase
    \/ Plan
    \/ Compute
    \/ WriteText
    \/ Figure

Spec == Init /\ [][Next]_vars

-----------------------------------------------------------------------------
(* Properties: vocabulary *)

Sel(ev) == SelectSeq(log, LAMBDA e : e.ev = ev)
TextWrites == Sel("write")
FigSaves == Sel("savefig")
Warnings == Sel("warn")
CallsOf(fn) == SelectSeq(log, LAMBDA e : e.ev = "call" /\ e.fn = fn)

Distinct(l) == \A a, b \in 1..Len(l) : a # b => l[a] # l[b]
Count(l, x) == Cardinality({k \in 1..Len(l) : l[k] = x})

NormGiven == IF kwargs.normalization = NoList THEN <<>> ELSE kwargs.normalization[1]
CorrGiven == IF kwargs.correction = NoList THEN <<>> ELSE kwargs.correction[1]

Planned == todo # <<>>
NormTasks == {t \in 1..Len(todo) : todo[t].what = "norm"}
JointTasks == {t \in 1..Len(todo) : todo[t] = Task("norm", "joint")}

\* the tasks whose iteration has ended
Finished == IF pc = "done" THEN 1..Len(todo) ELSE 1..(i - 1)

\* the suffix the specification gives to task t (0: the write before the loop)
SpecSuffix(t) ==
    IF t = 0 THEN ""
    ELSE IF todo[t].what = "norm" THEN "_norm_" \o todo[t].which
    ELSE IF todo[t].what = "corr" THEN "_corr_" \o todo[t].which
    ELSE ""

-----------------------------------------------------------------------------
(* C1 *)

\* C1: a normalization list of k pairwise distinct names with 'joint' among
\* them, and m pairwise distinct correction names, give exactly one
\* (norm, joint) task and 1+k+m tasks, and the finished run 1+k+m text writes
\* in its loop.
C1_ExactlyOneJointTask ==
    (/\ Planned
     /\ Distinct(NormGiven) /\ Distinct(CorrGiven)
     /\ Contains(NormGiven, "joint") /\ ~Contains(NormGiven, "join"))
    => /\ Cardinality(JointTasks) = 1
       /\ Len(todo) = 1 + Len(NormGiven) + Len(CorrGiven)
       /\ pc = "done" =>
            Len(SelectSeq(TextWrites, LAMBDA e : e.task > 0))
                = 1 + Len(NormGiven) + Len(CorrGiven)

-----------------------------------------------------------------------------
(* C2 *)

\* C2: when 'joint' is among the normalization names, at any position, the
\* first norm task is (norm, joint), and every text write of another norm
\* task comes after a write of prefix + '_norm_joint.txt' holding the jointly
\* normalized matrix.
C2_JointFirst ==
    (Planned /\ Contains(NormGiven, "joint"))
    => /\ \A t \in NormTasks :
            (\A u \in NormTasks : t <= u) => todo[t].which = "joint"
       /\ \A k \in 1..Len(log) :
            (/\ log[k].ev = "write" /\ log[k].task \in NormTasks
             /\ todo[log[k].task].which # "joint")
            => \E j \in 1..(k - 1) :
                 /\ log[j].ev = "write"
                 /\ log[j].task \in JointTasks
                 /\ log[j].path = prefix \o "_norm_joint" \o ".txt"
                 /\ log[j].data = buildMutinfoMatrix(msa, TRUE)

\* a finished run whose list names 'joint' last, after another name
C2_Witness ==
    /\ pc = "done"
    /\ NormGiven = <<"minent", "joint">>
    /\ \E k \in 1..Len(log) :
         log[k].ev = "write" /\ log[k].path = prefix \o "_norm_minent.txt"

-----------------------------------------------------------------------------
(* C3 *)

\* C3: calcShannonEntropy is called at most once in a run, however many
\* non-joint normalization tasks there are (repeated names included), and
\* every applyMutinfoNorm call is given the value of that one call.
C3_EntropyOnce ==
    /\ Len(CallsOf("calcShannonEntropy")) <= 1
    /\ \A k \in 1..Len(log) :
         (log[k].ev = "call" /\ log[k].fn = "applyMutinfoNorm")
         => \E j \in 1..(k - 1) :
              /\ log[j].ev = "call" /\ log[j].fn = "calcShannonEntropy"
              /\ log[k].data
                   = applyMutinfoNorm(mutinfo, log[j].data, todo[log[k].task].which)

\* a finished run with two non-joint normalization tasks and one entropy call
C3_Witness ==
    /\ pc = "done"
    /\ Len(CallsOf("applyMutinfoNorm")) >= 2
    /\ Len(CallsOf("calcShannonEntropy")) = 1

-----------------------------------------------------------------------------
(* C4 *)

\* C4: in a finished run whose requested names are pairwise distinct and do
\* not include 'joint', every text path is written exactly once and there are
\* as many text writes as tasks.
C4_WriteOnce ==
    (/\ pc = "done"
     /\ Distinct(NormGiven) /\ Distinct(CorrGiven)
     /\ ~Contains(NormGiven, "joint"))
    => /\ Len(TextWrites) = Len(todo)
       /\ \A a, b \in 1..Len(TextWrites) :
            a # b => TextWrites[a].path # TextWrites[b].path

-----------------------------------------------------------------------------
(* C5 *)

\* C5: with figures requested and matplotlib importable, an exception of
\* showMutinfoMatrix or savefig does not end the run.
C5_RenderFailureNotFatal ==
    raised \in FigureCalls => pc # "aborted"

-----------------------------------------------------------------------------
(* C6 *)

\* C6: with figures requested and matplotlib not importable, no figure is
\* saved, every task whose iteration has ended has its text artifact and its
\* warning, nothing but a failing text write ends the run early, and the
\* finished run has the text artifact of every planned task and at least one
\* warning.
C6_NoBackendStillWrites ==
    (kwargs.figcoevol /\ ~pltOK)
    => /\ FigSaves = <<>>
       /\ pc = "aborted" => raised = "writeArray"
       /\ Planned =>
            \A t \in Finished :
              /\ \E k \in 1..Len(log) :
                   /\ log[k].ev = "write" /\ log[k].task = t
                   /\ log[k].path \in DOMAIN files
              /\ \E k \in 1..Len(log) : log[k].ev = "warn" /\ log[k].task = t
       /\ pc = "done" => (raised = None /\ Len(Warnings) >= 1)

\* a finished run of three tasks or more without matplotlib
C6_Witness ==
    /\ pc = "done"
    /\ kwargs.figcoevol /\ ~pltOK
    /\ Len(todo) >= 3
    /\ Len(SelectSeq(TextWrites, LAMBDA e : e.task > 0)) = Len(todo)

-----------------------------------------------------------------------------
(* C7 *)

\* C7, as claimed: with figures requested and matplotlib not importable, the
\* finished run has logged the warning exactly once.
C7_WarnExactlyOnce ==
    (pc = "done" /\ kwargs.figcoevol /\ ~pltOK) => Len(Warnings) = 1

\* C7, amended: with figures requested and matplotlib not importable, the
\* warning is logged once in every iteration, so once per task whose
\* iteration has ended: the finished run has as many warnings as tasks.
C7_WarnOncePerTask ==
    (Planned /\ kwargs.figcoevol /\ ~pltOK /\ pc \in {"compute", "done"})
    => /\ Len(Warnings) = Cardinality(Finished)
       /\ \A t \in Finished : Len(SelectSeq(Warnings, LAMBDA e : e.task = t)) = 1

\* a finished run of several tasks without matplotlib, one warning each
C7_Witness ==
    /\ pc = "done"
    /\ kwargs.figcoevol /\ ~pltOK
    /\ Len(todo) >= 2
    /\ Len(Warnings) = Len(todo)

-----------------------------------------------------------------------------
(* C8 *)

\* the allowed values of the two options
AllowedNorm == {"sument", "minent", "maxent", "mincon", "maxcon", "joint"}
AllowedCorr == {"apc", "asc"}
Invalid ==
    \/ \E k \in 1..Len(NormGiven) : NormGiven[k] \notin AllowedNorm
    \/ \E k \in 1..Len(CorrGiven) : CorrGiven[k] \notin AllowedCorr

-----------------------------------------------------------------------------
(* C9 *)

\* C9: once writeArray has raised, the run is over: from the failing step on
\* there is no call, no write and no figure save, and the files written
\* before stay as they are.
C9_WriteFailureAborts ==
    [][raised' = "writeArray"
         => (pc' = "aborted" /\ log' = log /\ files' = files)]_vars

\* a text write failed after two artifacts were written, with tasks left
C9_Witness ==
    /\ raised = "writeArray"
    /\ pc = "aborted"
    /\ Len(TextWrites) >= 2
    /\ \A k \in 1..Len(TextWrites) :
         /\ TextWrites[k].path \in DOMAIN files
    /\ i < Len(todo)

-----------------------------------------------------------------------------
(* C10 *)

\* the indices of the events that stored path
StoresOf(path) ==
    {k \in 1..Len(log) : log[k].ev \in {"write", "savefig"} /\ log[k].path = path}

\* C10: every text write goes to prefix + suffix + '.txt' and every figure
\* save to prefix + suffix + '.' + figformat, the suffix being '' for the
\* base task, '_norm_' + v for a norm task and '_corr_' + v for a corr task;
\* tasks of the same kind and variant write the same path, and each file
\* holds what was last written to it.
C10_Paths ==
    /\ \A k \in 1..Len(log) :
         /\ log[k].ev = "write"
              => log[k].path = prefix \o SpecSuffix(log[k].task) \o ".txt"
         /\ log[k].ev = "savefig"
              => log[k].path
                   = prefix \o SpecSuffix(log[k].task) \o "." \o kwargs.figformat
    /\ \A a \in 1..Len(log) :
         (log[a].ev = "write" /\ log[a].task > 0)
         => \A b \in 1..(a - 1) :
              (/\ log[b].ev = "write" /\ log[b].task > 0
               /\ todo[log[a].task] = todo[log[b].task])
              => log[a].path = log[b].path
    /\ \A k \in 1..Len(log) :
         log[k].ev \in {"write", "savefig"} => log[k].path \in DOMAIN files
    /\ \A path \in DOMAIN files : StoresOf(path) # {}
    /\ \A k \in 1..Len(log) :
         (/\ log[k].ev \in {"write", "savefig"}
          /\ \A j \in (k + 1)..Len(log) :
                log[j].ev \in {"write", "savefig"} => log[j].path # log[k].path)
         => files[log[k].path] = log[k].data

\* a finished run with figures in which two tasks have the same kind and
\* variant: both wrote, to one path, and the run ended without an exception
C10_Witness ==
    /\ pc = "done"
    /\ raised = None
    /\ FigSaves # <<>>
    /\ \E a, b \in 1..Len(TextWrites) :
         /\ a < b
         /\ TextWrites[a].task > 0
         /\ TextWrites[a].task # TextWrites[b].task
         /\ todo[TextWrites[a].task] = todo[TextWrites[b].task]
         /\ todo[TextWrites[a].task] = Task("norm", "minent")
         /\ TextWrites[a].path = TextWrites[b].path
    /\ \E k \in 1..Len(log) :
         log[k].ev = "write" /\ log[k].task > 0 /\ todo[log[k].task].what = "corr"

-----------------------------------------------------------------------------
(* C11 *)

\* C11: whatever the options (None and empty lists included), the first task
\* is the base task, its text write goes to prefix + '' + '.txt' and holds
\* the base matrix, and every text write of a norm or corr task comes after
\* a write of the base artifact made for the base task.
C11_BaseFirst ==
    Planned
    => /\ todo[1] = Task(None, None)
       /\ \A k \in 1..Len(log) :
            (log[k].ev = "write" /\ log[k].task = 1)
            => /\ log[k].path = prefix \o "" \o ".txt"
               /\ log[k].data = mutinfo
               /\ log[k].data = log[1].data
       /\ \A k \in 1..Len(log) :
            (/\ log[k].ev = "write" /\ log[k].task > 0
             /\ todo[log[k].task].what \in {"norm", "corr"})
            => \E j \in 1..(k - 1) :
                 /\ log[j].ev = "write" /\ log[j].task = 1
                 /\ log[j].path = prefix \o ".txt"

\* a finished run with a norm and a corr task after the base task
C11_Witness ==
    /\ pc = "done"
    /\ Len(todo) >= 3
    /\ \E k \in 1..Len(log) :
         log[k].ev = "write" /\ log[k].task > 0 /\ todo[log[k].task].what = "norm"
    /\ \E k \in 1..Len(log) :
         log[k].ev = "write" /\ log[k].task > 0 /\ todo[log[k].task].what = "corr"
    /\ log[1].fn = "buildMutinfoMatrix"

-----------------------------------------------------------------------------
(* Properties: the calls and text writes a task list stands for *)

CallsAndWrites == SelectSeq(log, LAMBDA e : e.ev \in {"call", "write"})

\* is task t of td the first norm task of td other than 'joint'
FirstPlainNorm(td, t) ==
    /\ td[t].what = "norm" /\ td[t].which # "joint"
    /\ \A u \in 1..(t - 1) : ~(td[u].what = "norm" /\ td[u].which # "joint")

\* the calls and the text write of task t of td
TaskEvents(td, t) ==
    LET base == buildMutinfoMatrix(msa, FALSE)
        ent == calcShannonEntropy(msa)
        WriteOf(suf, mx) ==
            Event("write", "writeArray", t, prefix \o suf \o ".txt", mx)
    IN  IF td[t].what = None
        THEN <<WriteOf("", base)>>
        ELSE IF td[t] = Task("norm", "joint")
        THEN LET mx == buildMutinfoMatrix(msa, TRUE)
             IN  <<Event("call", "buildMutinfoMatrix", t, "", mx),
                   WriteOf("_norm_joint", mx)>>
        ELSE IF td[t].what = "norm"
        THEN LET mx == applyMutinfoNorm(base, ent, td[t].which)
             IN  (IF FirstPlainNorm(td, t)
                  THEN <<Event("call", "calcShannonEntropy", t, "", ent)>>
                  ELSE <<>>)
                 \o <<Event("call", "applyMutinfoNorm", t, "", mx),
                      WriteOf("_norm_" \o td[t].which, mx)>>
        ELSE LET mx == applyMutinfoCorr(base, td[t].which)
             IN  <<Event("call", "applyMutinfoCorr", t, "", mx),
                   WriteOf("_corr_" \o td[t].which, mx)>>

RECURSIVE RunEvents(_, _)
\* the calls and text writes of a run up to the end of task n of td
RunEvents(td, n) ==
    IF n = 0
    THEN LET base == buildMutinfoMatrix(msa, FALSE)
         IN  <<Event("call", "buildMutinfoMatrix", 0, "", base),
               Event("write", "writeArray", 0, prefix \o ".txt", base)>>
    ELSE RunEvents(td, n - 1) \o TaskEvents(td, n)

-----------------------------------------------------------------------------
(* C12 *)

WithoutJoin(l) == SelectSeq(l, LAMBDA n : n # "join")

\* the keyword arguments of the run, the 'join' entries removed
KwargsWithoutJoin ==
    [kwargs EXCEPT !.normalization =
        IF @ = NoList THEN NoList ELSE SomeList(WithoutJoin(@[1]))]

\* C12: 'join' entries of the normalization list give no task, no call and
\* no artifact: the task list is the one planned for the list without them,
\* and the finished run has made exactly the calls and text writes of that
\* task list.
C12_JoinInert ==
    /\ Planned =>
         /\ todo = PlanTodo(KwargsWithoutJoin)
         /\ \A t \in 1..Len(todo) : todo[t].which # "join"
    /\ \A k \in 1..Len(log) :
         /\ log[k].path \notin {prefix \o "_norm_join.txt",
                                prefix \o "_norm_join." \o kwargs.figformat}
         /\ log[k].ev = "call" => log[k].data # applyMutinfoNorm(mutinfo, entropy, "join")
    /\ pc = "done" =>
         CallsAndWrites
           = RunEvents(PlanTodo(KwargsWithoutJoin), Len(PlanTodo(KwargsWithoutJoin)))

\* a finished run whose list has a 'join' entry among others
C12_Witness ==
    /\ pc = "done"
    /\ NormGiven = <<"join", "minent">>
    /\ Len(todo) = 2
    /\ DOMAIN files = {prefix \o ".txt", prefix \o "_norm_minent.txt"}

-----------------------------------------------------------------------------
(* The prefix runs: lines 119-124 on every short path *)

PathChars == {"a", ".", "g", "z", "Z", "/"}

InitPrefix ==
    /\ entry = "api"
    /\ msa \in SeqsUpTo(PathChars, MaxPath) \ {<<>>}
    /\ kwargs \in [prefix : PrefixArgs,
                   normalization : {NoList},
                   correction : {NoList},
                   figcoevol : {FALSE},
                   figformat : FigFormats]
    /\ pltOK = TRUE
    /\ pc = "prefix"
    /\ prefix = Unbound
    /\ mutinfo = Unbound
    /\ todo = <<>>
    /\ i = 0
    /\ entropy = Unbound
    /\ matrix = Unbound
    /\ suffix = Unbound
    /\ log = <<>>
    /\ files = NoFiles
    /\ raised = None

NextPrefix == DerivePrefix

SpecPrefix == InitPrefix /\ [][NextPrefix]_vars

-----------------------------------------------------------------------------
(* C13 *)

\* the places where the last extension of p starts: a dot of the last
\* component with no dot after it and a character other than a dot before it
ExtStarts(p) ==
    {k \in 1..Len(p) :
       /\ p[k] = "."
       /\ \A j \in (k + 1)..Len(p) : p[j] \notin {".", "/"}
       /\ \E j \in 1..(k - 1) :
            /\ p[j] # "."
            /\ \A m \in j..k : p[m] # "/"}

\* p without its last extension, and that extension
RootOf(p) ==
    IF ExtStarts(p) = {} THEN p
    ELSE SubSeq(p, 1, (CHOOSE k \in ExtStarts(p) : TRUE) - 1)
ExtOf(p) ==
    IF ExtStarts(p) = {} THEN <<>>
    ELSE SubSeq(p, CHOOSE k \in ExtStarts(p) : TRUE, Len(p))

\* '.gz' in every case
GzExts == {<<".", c1, c2>> : c1 \in {"g", "G"}, c2 \in {"z", "Z"}}

-----------------------------------------------------------------------------
(* C14 *)

\* the reference task sequence of normalization list N and correction list C
RefPlan(N, C) ==
    LET kept == SelectSeq(N, LAMBDA n : n # "join")
    IN  <<Task(None, None)>>
        \o (IF \E k \in 1..Len(N) : N[k] = "joint"
            THEN <<Task("norm", "joint")>> ELSE <<>>)
        \o [k \in 1..Len(kept) |-> Task("norm", kept[k])]
        \o [k \in 1..Len(C) |-> Task("corr", C[k])]

\* C14: the task list is the reference sequence: base, (norm, joint) when
\* 'joint' is requested, a norm task for every requested name but 'join' in
\* the order given ('joint' again, repeated names repeated), a corr task for
\* every correction name in the order given; None and empty lists give the
\* base task alone, with no exception; every norm task is before every corr
\* task.
C14_PlanIsReference ==
    /\ Planned =>
         /\ todo = RefPlan(NormGiven, CorrGiven)
         /\ \A a, b \in 1..Len(todo) :
              (todo[a].what = "norm" /\ todo[b].what = "corr") => a < b
         /\ (NormGiven = <<>> /\ CorrGiven = <<>>) => todo = <<Task(None, None)>>
    /\ pc \in {"plan", "compute"} => raised = None

\* a planned list with 'joint' twice and a repeated correction name
C14_Witness ==
    /\ pc = "compute"
    /\ NormGiven = <<"minent", "joint">>
    /\ CorrGiven = <<"apc", "apc">>
    /\ todo = <<Task(None, None), Task("norm", "joint"), Task("norm", "minent"),
                Task("norm", "joint"), Task("corr", "apc"), Task("corr", "apc")>>

-----------------------------------------------------------------------------
(* C15 *)

\* the tasks whose matrix has been computed
Computed ==
    IF ~Planned THEN {}
    ELSE IF pc = "compute" THEN 1..(i - 1)
    ELSE 1..i

\* is there a call of fn made for task t that returned data
CalledFor(fn, t, data) ==
    \E j \in 1..Len(log) :
      /\ log[j].ev = "call" /\ log[j].fn = fn
      /\ log[j].task = t /\ log[j].data = data

\* C15: the base matrix is built once, before the loop, and mutinfo stays
\* that matrix; the base task writes it; a (norm, joint) task writes a matrix
\* built for that task from the alignment with norm=True; a (norm, v) task
\* writes applyMutinfoNorm(base, entropy, v); a (corr, v) task writes
\* applyMutinfoCorr(base, v); buildMutinfoMatrix has been called once plus
\* once per joint task computed.
C15_MatrixSources ==
    log # <<>> =>
      /\ log[1] = Event("call", "buildMutinfoMatrix", 0, "", "MI(" \o Join(msa) \o ")")
      /\ mutinfo = log[1].data
      /\ \A k \in 1..Len(log) :
           log[k].ev = "write" =>
             LET t == log[k].task
             IN  IF t = 0 \/ todo[t].what = None
                 THEN log[k].data = log[1].data
                 ELSE IF todo[t] = Task("norm", "joint")
                 THEN /\ log[k].data = "MI(" \o Join(msa) \o ",norm=True)"
                      /\ log[k].data # log[1].data
                      /\ CalledFor("buildMutinfoMatrix", t, log[k].data)
                 ELSE IF todo[t].what = "norm"
                 THEN /\ log[k].data
                           = applyMutinfoNorm(log[1].data, entropy, todo[t].which)
                      /\ entropy = calcShannonEntropy(msa)
                      /\ CalledFor("applyMutinfoNorm", t, log[k].data)
                 ELSE /\ log[k].data = applyMutinfoCorr(log[1].data, todo[t].which)
                      /\ CalledFor("applyMutinfoCorr", t, log[k].data)
      /\ Len(CallsOf("buildMutinfoMatrix")) = 1 + Cardinality(JointTasks \cap Computed)
      /\ pc = "done" =>
           Len(CallsOf("buildMutinfoMatrix")) = 1 + Cardinality(JointTasks)

\* a finished run with a joint, another norm and a corr task
C15_Witness ==
    /\ pc = "done"
    /\ NormGiven = <<"joint", "minent">>
    /\ CorrGiven = <<"asc">>
    /\ Len(CallsOf("buildMutinfoMatrix")) = 3
    /\ files[prefix \o "_norm_joint.txt"] = "MI(" \o Join(msa) \o ",norm=True)"
    /\ files[prefix \o "_corr_asc.txt"] = applyMutinfoCorr(mutinfo, "asc")

-----------------------------------------------------------------------------
(* C16 *)

\* the norm tasks other than 'joint'
PlainNormTasks == {t \in NormTasks : todo[t].which # "joint"}

\* C16: calcShannonEntropy is called only in the first norm task that is not
\* 'joint', right before that task's applyMutinfoNorm call; until that task
\* is computed (through the base task, joint tasks and whatever precedes it)
\* the entropy is not computed, and a run without such a task never calls
\* calcShannonEntropy.
C16_EntropyLazy ==
    /\ \A k \in 1..Len(log) :
         (log[k].ev = "call" /\ log[k].fn = "calcShannonEntropy")
         => /\ log[k].task \in PlainNormTasks
            /\ \A u \in PlainNormTasks : log[k].task <= u
            /\ k < Len(log)
            /\ log[k + 1].ev = "call"
            /\ log[k + 1].fn = "applyMutinfoNorm"
            /\ log[k + 1].task = log[k].task
    /\ (~Planned \/ PlainNormTasks \cap Computed = {})
         => /\ CallsOf("calcShannonEntropy") = <<>>
            /\ entropy \in {Unbound, None}
    /\ (pc = "done" /\ PlainNormTasks = {}) => CallsOf("calcShannonEntropy") = <<>>

\* joint tasks came first and wrote; the entropy was computed in the
\* 'minent' task after them
C16_Witness ==
    /\ pc = "done"
    /\ NormGiven = <<"joint", "minent">>
    /\ \E k \in 1..Len(log) :
         /\ log[k].ev = "call" /\ log[k].fn = "calcShannonEntropy"
         /\ log[k].task = 4
         /\ \E j \in 1..(k - 1) : log[j].ev = "write" /\ log[j].task = 3

\* a finished run of base, joint and correction tasks: no entropy call
C16_WitnessNone ==
    /\ pc = "done"
    /\ NormGiven = <<"joint">>
    /\ CorrGiven = <<"apc">>
    /\ CallsOf("calcShannonEntropy") = <<>>

-----------------------------------------------------------------------------
(* C17 *)

\* the place of an event within its iteration: calls, text write, figure step
Stage(e) ==
    IF e.ev = "call" THEN 1 ELSE IF e.ev = "write" THEN 2 ELSE 3

\* C17: tasks are processed one at a time in list order, none skipped; within
\* an iteration the calls come first, then the text write, then the figure
\* step: a figure is saved (or its warning logged) only after the text write
\* of the same task, and with figures requested nothing of task t+1 happens
\* before the figure step of task t.
C17_TaskOrder ==
    /\ \A k \in 1..(Len(log) - 1) :
         /\ log[k].task <= log[k + 1].task
         /\ log[k].task = log[k + 1].task => Stage(log[k]) <= Stage(log[k + 1])
    /\ \A k \in 1..Len(log) :
         /\ log[k].ev \in {"savefig", "warn"}
              => \E j \in 1..(k - 1) :
                   log[j].ev = "write" /\ log[j].task = log[k].task
         /\ (log[k].task >= 2 /\ kwargs.figcoevol)
              => \E j \in 1..(k - 1) :
                   /\ log[j].ev \in {"savefig", "warn"}
                   /\ log[j].task = log[k].task - 1
         /\ log[k].task >= 2
              => \E j \in 1..(k - 1) :
                   log[j].ev = "write" /\ log[j].task = log[k].task - 1
    /\ pc = "figure"
         => \E k \in 1..Len(log) : log[k].ev = "write" /\ log[k].task = i
    /\ log # <<>> => log[Len(log)].task <= i

\* a finished run with figures: three tasks, each with its write and then
\* its figure
C17_Witness ==
    /\ pc = "done"
    /\ kwargs.figcoevol /\ pltOK
    /\ Len(todo) >= 3
    /\ Len(FigSaves) = Len(todo)
    /\ \A t \in 1..Len(todo) :
         \E j, k \in 1..Len(log) :
           /\ j < k
           /\ log[j].ev = "write" /\ log[j].task = t
           /\ log[k].ev = "savefig" /\ log[k].task = t

-----------------------------------------------------------------------------
(* C18 *)

\* C18: the calls and text writes of a run are those of its task list,
\* computed from the alignment, the prefix and the two name lists alone:
\* whether figures are requested, and whether matplotlib can be imported,
\* changes neither the calls, nor the text paths, nor the matrices written,
\* nor their order.  Stated at the end of every iteration and of the run.
C18_TextIndependentOfFigures ==
    (Planned /\ pc \in {"compute", "done"})
    => CallsAndWrites
         = RunEvents(RefPlan(NormGiven, CorrGiven), Cardinality(Finished))

\* a finished run with figures saved for a norm and a corr task
C18_Witness ==
    /\ pc = "done"
    /\ kwargs.figcoevol /\ pltOK
    /\ NormGiven = <<"minent">>
    /\ CorrGiven = <<"apc">>
    /\ Len(FigSaves) = 3
    /\ Len(CallsAndWrites) = 8

\* the same options without figures
C18_WitnessNoFigures ==
    /\ pc = "done"
    /\ ~kwargs.figcoevol
    /\ NormGiven = <<"minent">>
    /\ CorrGiven = <<"apc">>
    /\ FigSaves = <<>>
    /\ Len(CallsAndWrites) = 8

=============================================================================
